---- MODULE Spec2Model ----
(***************************************************************************)
(* Model of PaperPal's preference memory store                             *)
(* (src/src/preference_manager.py, class PreferenceManager) and of the     *)
(* threads that use it: the foreground CLI loop and the daemon threads     *)
(* started by schedule_memory_update.                                      *)
(*                                                                         *)
(* Strings.  A fragment text is a sequence of characters, so that strip()  *)
(* is computed.  A memory text is as long as 2000                          *)
(* characters and is written by the language model, so it is represented   *)
(* by its length and by the call that produced it: the response to the     *)
(* merge prompt built from memory m and fragments p is the text            *)
(* [how |-> "merge", base |-> <<m>>, frags |-> p] of some length `len`,    *)
(* the parsed response to the compression prompt for m is                  *)
(* [how |-> "compress", base |-> <<m>>], and cut = TRUE marks a [:1500]    *)
(* slice.  The empty string is EmptyText whatever produced it.             *)
(*                                                                         *)
(* Also modelled: Preferences.from_dict / to_dict and the restart of the   *)
(* program on the file (the migration of legacy fields spells its text by  *)
(* tokens), the two bounded history lists, and the retry loop of           *)
(* LLMClient.chat (src/src/llm_client.py).                                 *)
(***************************************************************************)
EXTENDS Naturals, Integers, Sequences, FiniteSets, TLC

(* ------------------------------ bounds -------------------------------- *)
MaxOps == 3          \* operations the foreground loop starts
NumWorkers == 2      \* background threads that can be started
MaxIOFail == 1       \* failures of the write in save_preferences
MaxToks == 5         \* tokens of a compression response that is parsed
LiveOps == 2         \* operations the foreground starts where liveness is checked

(* ------------------------- program constants -------------------------- *)
MAX_MEMORY_LENGTH == 2000
TARGET_MEMORY_LENGTH == 1500
MAX_FEEDBACK_HISTORY == 100
MAX_QUERY_HISTORY == 50
MAX_RETRIES == 3

Workers == 1..NumWorkers
FG == 0
Threads == {FG} \cup Workers

(* ------------------------------ strings ------------------------------- *)
WS == " "

RECURSIVE LStrip(_)
LStrip(s) ==
  IF s # <<>> /\ Head(s) = WS THEN LStrip(Tail(s)) ELSE s

RECURSIVE RStrip(_)
RStrip(s) ==
  IF s # <<>> /\ s[Len(s)] = WS THEN RStrip(SubSeq(s, 1, Len(s) - 1)) ELSE s

Strip(s) == RStrip(LStrip(s))

\* the texts the foreground passes to add_preference_update
Inputs == { <<>>, <<WS>>, <<WS, "a", WS>> }

(* ---------------------------- memory texts ---------------------------- *)
EmptyText == [len |-> 0, cut |-> FALSE, how |-> "empty", base |-> <<>>, frags |-> <<>>]

\* a text of n characters read from the preferences file
FileText(n) ==
  IF n = 0 THEN EmptyText
  ELSE [len |-> n, cut |-> FALSE, how |-> "file", base |-> <<>>, frags |-> <<>>]

\* the stripped response, n characters long, to the merge prompt
MergedText(n, memory, frags) ==
  IF n = 0 THEN EmptyText
  ELSE [len |-> n, cut |-> FALSE, how |-> "merge", base |-> <<memory>>,
        frags |-> frags]

\* the compressed text parsed from the response to the compression prompt
\* for `memory`: `toks` are its characters (defined below as tokens)
CompressedText(n, toks, memory) ==
  IF n = 0 THEN EmptyText
  ELSE [len |-> n, cut |-> FALSE, how |-> "compress", base |-> <<memory>>,
        frags |-> toks]

\* memory[:n]
Slice(text, n) ==
  IF text.len <= n THEN text
  ELSE IF n = 0 THEN EmptyText
  ELSE [text EXCEPT !.len = n, !.cut = TRUE]

\* the texts a preferences file can hold when the program starts
InitMemories == { FileText(0) }

\* a completion response: `len` characters between `pad` leading/trailing blanks
MergeResponses == { [len |-> n, pad |-> p] : n \in {0, 2000, 2001}, p \in {0} }
                  \cup { [len |-> 2000, pad |-> 1] }


(* --------------------- compression response parsing ------------------- *)
\* A compression response is a sequence of tokens: the two markers, a colon,
\* a blank, or a run of `n` other characters spelling the word `w`.
CM == [k |-> "CM", n |-> 18, w |-> "COMPRESSED_MEMORY:"]
RT == [k |-> "RT", n |-> 14, w |-> "REMOVED_TOPICS"]
COLON == [k |-> "colon", n |-> 1, w |-> ":"]
BLANK == [k |-> "ws", n |-> 1, w |-> " "]
Word(n, w) == [k |-> "txt", n |-> n, w |-> w]

RECURSIVE TokLen(_)
TokLen(toks) == IF toks = <<>> THEN 0 ELSE Head(toks).n + TokLen(Tail(toks))

RECURSIVE LStripToks(_)
LStripToks(toks) ==
  IF toks # <<>> /\ Head(toks).k = "ws" THEN LStripToks(Tail(toks)) ELSE toks

RECURSIVE RStripToks(_)
RStripToks(toks) ==
  IF toks # <<>> /\ toks[Len(toks)].k = "ws"
  THEN RStripToks(SubSeq(toks, 1, Len(toks) - 1)) ELSE toks

StripToks(toks) == RStripToks(LStripToks(toks))

\* index of the first token of kind k, 0 when there is none
FirstTok(toks, k) ==
  IF \E i \in 1..Len(toks) : toks[i].k = k
  THEN CHOOSE i \in 1..Len(toks) :
         toks[i].k = k /\ \A j \in 1..(i - 1) : toks[j].k # k
  ELSE 0

\* index of the first token holding a colon (the marker COMPRESSED_MEMORY:
\* ends with one), 0 when there is none
FirstColon(toks) ==
  IF \E i \in 1..Len(toks) : toks[i].k \in {"colon", "CM"}
  THEN CHOOSE i \in 1..Len(toks) :
         /\ toks[i].k \in {"colon", "CM"}
         /\ \A j \in 1..(i - 1) : toks[j].k \notin {"colon", "CM"}
  ELSE 0

SplitAfter(toks, i) == SubSeq(toks, i + 1, Len(toks))
SplitBefore(toks, i) == SubSeq(toks, 1, i - 1)

\* str.lower() on the words the model uses
Lower(w) == IF w \in {"None", "NONE", "none"} THEN "none" ELSE w

\* ParseCompressed with the bug of looking for REMOVED_TOPICS also when
\* COMPRESSED_MEMORY: is absent
ParseCompressedAnyRT(resp) ==
  LET c == FirstTok(resp, "CM")
      parts == IF c > 0 THEN SplitAfter(resp, c) ELSE resp
      r == FirstTok(parts, "RT") IN
  IF r > 0
  THEN LET removed_part == SplitAfter(parts, r)
           colon == FirstColon(removed_part) IN
       [compressed |-> StripToks(SplitBefore(parts, r)),
        removed |-> IF colon > 0
                    THEN StripToks(SplitAfter(removed_part, colon))
                    ELSE <<>>]
  ELSE [compressed |-> StripToks(parts), removed |-> <<>>]

\* the `compressed` and `removed` strings of _compress_memory
ParseCompressed(resp) ==
  LET c == FirstTok(resp, "CM") IN
  IF c > 0
  THEN LET parts == SplitAfter(resp, c)
           r == FirstTok(parts, "RT") IN
       IF r > 0
       THEN LET removed_part == SplitAfter(parts, r)
                colon == FirstColon(removed_part) IN
            [compressed |-> StripToks(SplitBefore(parts, r)),
             removed |-> IF colon > 0
                         THEN StripToks(SplitAfter(removed_part, colon))
                         ELSE <<>>]
       ELSE [compressed |-> StripToks(parts), removed |-> <<>>]
  ELSE [compressed |-> StripToks(resp), removed |-> <<>>]

IsNone(removed) == Len(removed) = 1 /\ Lower(removed[1].w) = "none"

\* the notification _compress_memory returns with a parsed response
CompressNotification(resp) ==
  LET removed == ParseCompressed(resp).removed IN
  IF removed # <<>> /\ ~IsNone(removed) THEN "removed" ELSE "compressed"

\* the responses the completion capability gives to the compression prompt
CompressResponses ==
  { <<CM, BLANK, Word(1500, "x"), BLANK, RT, COLON, BLANK, Word(4, "None")>>,
    <<CM, Word(1500, "x"), RT, COLON, Word(6, "topics")>>,
    <<Word(2100, "x")>>,
    <<CM, BLANK>> }


(* ------------------------------- state -------------------------------- *)
VARIABLES
  preference_memory,  \* self.preferences.preference_memory
  pending_updates,    \* self.preferences.pending_updates
  feedback_history,   \* self.preferences.feedback_history
  query_history,      \* self.preferences.query_history
  settings,           \* self.preferences.language ... arxiv_categories
  last_updated,       \* self.preferences.last_updated
  lock,               \* self._lock: the set of threads holding it (empty or one)
  disk,               \* the preferences file
  pc,                 \* where each thread is
  op,                 \* the operation the foreground is running
  pending,            \* _process_memory_update's local `pending`
  current_memory,     \* _process_memory_update's local `current_memory`
  new_memory,         \* _process_memory_update's local `new_memory`
  notification,       \* _process_memory_update's local `notification`
  restored,           \* the value of `pending + pending_updates` before it is stored
  compress_response,  \* _compress_memory's local `response`: <<>> or <<the text>>
  http,               \* LLMClient.chat: the retry loop of a thread's current call
  exc,                \* the exception caught by _process_memory_update
  result,             \* what the last _process_memory_update of a thread returned
  enqueued,           \* history: fragments ever appended to pending_updates
  folded,             \* history: fragments in the input of a committed merge
  discarded,          \* history: fragments dropped by clear_memory
  calls,              \* history: completion calls made by a thread's current merge
  mark,               \* history: nextId when a thread's merge began to drain / failed
  notified,           \* history: how often each thread's callback was invoked
  nextId,             \* history: identity of the next fragment
  inserted,           \* history: every record ever appended, per history list
  ops,                \* operations the foreground has started
  iofails             \* writes that have failed

prefs == <<preference_memory, pending_updates, feedback_history, query_history,
           settings, last_updated>>
locals == <<pending, current_memory, new_memory, notification, restored,
            compress_response, http, exc, result>>
history == <<enqueued, folded, discarded, calls, mark, notified, nextId,
             inserted>>
vars == <<prefs, lock, disk, pc, op, locals, history, ops, iofails>>

\* the optional settings of Preferences; an Optional value is <<>> (None)
\* or <<v>>
SettingNames ==
  {"language", "search_mode", "max_workers", "save_to_local", "output_dir",
   "save_results", "max_display", "auto_summary", "arxiv_categories"}

\* Preferences(): every setting is None
NoSettings == [k \in SettingNames |-> <<>>]

\* no chat call in progress.  call: which of the merge's calls (1: merge
\* prompt, 2: compression prompt); attempt: the loop index; requests: HTTP
\* requests sent by this call; last: the answer to the latest request
NoHttp == [call |-> 0, attempt |-> 0, requests |-> 0, last |-> "none",
           outcome |-> "none"]

\* no record appended to either history list
NoRecords == [query |-> <<>>, feedback |-> <<>>]

\* no completion call made; merged_len: length of the stripped merge response
NoCalls == [merge |-> 0, compress |-> 0, merged_len |-> 0]

\* drain: nextId when the drain began; raised: nextId when chat raised
NoMark == [drain |-> 0, raised |-> 0]

NoResult == [status |-> "none", notification |-> "None", message |-> ""]

\* ToDict with the bug of leaving the pending fragments out of the file
ToDictNoPending ==
  [kind |-> "json",
   preference_memory |-> preference_memory,
   feedback_history |-> feedback_history,
   query_history |-> query_history,
   settings |-> settings,
   last_updated |-> last_updated]

\* Preferences.to_dict, as written to the file by json.dump
ToDict ==
  [kind |-> "json",
   preference_memory |-> preference_memory,
   pending_updates |-> pending_updates,
   feedback_history |-> feedback_history,
   query_history |-> query_history,
   settings |-> settings,
   last_updated |-> last_updated]

(* --------------------------- LLMClient.chat --------------------------- *)
\* the answers to one HTTP request: a body with candidates; a body with no
\* candidates and no error; a body with no candidates and an error; a body
\* that is not JSON; the statuses 401, 429, 404, 500; no connection; timeout
HttpResponses ==
  {"text", "empty", "api_error", "malformed", "401", "429", "404", "500",
   "connection", "timeout"}

\* HttpOutcome with the bug of retrying after a connection error
HttpOutcomeRetryConn(r, attempt) ==
  CASE r = "text" -> "return_text"
    [] r = "empty" -> "return_empty"
    [] r = "401" -> "PermissionError"
    [] r = "404" -> "ConnectionError"
    [] r = "500" -> "RuntimeError"
    [] r = "timeout" -> "ConnectionError"
    [] r \in {"429", "connection", "api_error", "malformed"} ->
         IF attempt < MAX_RETRIES THEN "running" ELSE "RuntimeError"

\* what one pass of the loop does with the answer r at loop index attempt:
\* return, raise, or `continue`
HttpOutcome(r, attempt) ==
  CASE r = "text" -> "return_text"
    [] r = "empty" -> "return_empty"
    [] r = "401" -> "PermissionError"
    [] r = "429" -> IF attempt < MAX_RETRIES THEN "running" ELSE "RuntimeError"
    [] r = "404" -> "ConnectionError"
    [] r = "500" -> "RuntimeError"
    [] r = "connection" -> "ConnectionError"
    [] r = "timeout" -> "ConnectionError"
    [] r \in {"api_error", "malformed"} ->
         IF attempt < MAX_RETRIES THEN "running" ELSE "RuntimeError"

\* the chat calls a merge has begun: the merge prompt, the compression prompt
ChatCalls(t) == calls[t].merge + calls[t].compress

\* the loop of the call in progress; a call that has sent nothing yet
\* starts at index 0
Loop(t) ==
  IF http[t].call = ChatCalls(t) THEN http[t]
  ELSE [call |-> ChatCalls(t), attempt |-> 0, requests |-> 0, last |-> "none",
        outcome |-> "running"]

\* one pass of `for attempt in range(self.max_retries + 1)`:
\* requests.post(...) is answered by r
HttpRequest(t, r) ==
  /\ pc[t] \in {"chat", "compress"}
  /\ Loop(t).outcome = "running"
  /\ Loop(t).attempt <= MAX_RETRIES
  /\ LET outcome == HttpOutcome(r, Loop(t).attempt) IN
     http' = [http EXCEPT ![t] =
                [call |-> ChatCalls(t),
                 attempt |-> IF outcome = "running" THEN Loop(t).attempt + 1
                             ELSE Loop(t).attempt,
                 requests |-> Loop(t).requests + 1,
                 last |-> r,
                 outcome |-> outcome]]
  /\ UNCHANGED <<prefs, lock, disk, pc, op, pending, current_memory, new_memory,
                 notification, restored, compress_response, exc, result,
                 history, ops, iofails>>

\* the call of thread t has ended with outcome o
ChatEnded(t, o) == http[t].call = ChatCalls(t) /\ http[t].outcome = o

(* ------------------------- loading the file --------------------------- *)
\* data.get(key, default)
Get(data, key, default) == IF key \in DOMAIN data THEN data[key] ELSE default

\* sep.join(parts), each part a sequence of tokens
RECURSIVE Join(_, _)
Join(parts, sep) ==
  IF parts = <<>> THEN <<>>
  ELSE IF Len(parts) = 1 THEN parts[1]
  ELSE parts[1] \o <<sep>> \o Join(Tail(parts), sep)

COMMA == Word(2, ", ")

\* f"{label}{', '.join(items)}"
Rendering(label, items) ==
  <<label>> \o Join([i \in 1..Len(items) |-> <<items[i]>>], COMMA)

\* the labels of the four legacy lists
InterestedIn == Word(15, "Interested in: ")
NotInterestedIn == Word(19, "Not interested in: ")
InterestedTopics == Word(19, "Interested topics: ")
TopicsToAvoid == Word(17, "Topics to avoid: ")

\* if data.get(key): old_parts.append(f"{label}{', '.join(data[key])}")
OldPart(data, key, label) ==
  IF Get(data, key, <<>>) # <<>> THEN << Rendering(label, data[key]) >> ELSE <<>>

\* OldParts with the bug of rendering the topics before the keywords
OldPartsTopicsFirst(data) ==
  OldPart(data, "interested_topics", InterestedTopics)
  \o OldPart(data, "not_interested_topics", TopicsToAvoid)
  \o OldPart(data, "interested_keywords", InterestedIn)
  \o OldPart(data, "not_interested_keywords", NotInterestedIn)
  \o (IF Get(data, "custom_preferences", <<>>) # <<>>
      THEN << data["custom_preferences"] >> ELSE <<>>)

\* the old_parts list of Preferences.from_dict
OldParts(data) ==
  OldPart(data, "interested_keywords", InterestedIn)
  \o OldPart(data, "not_interested_keywords", NotInterestedIn)
  \o OldPart(data, "interested_topics", InterestedTopics)
  \o OldPart(data, "not_interested_topics", TopicsToAvoid)
  \o (IF Get(data, "custom_preferences", <<>>) # <<>>
      THEN << data["custom_preferences"] >> ELSE <<>>)

\* a text spelled by tokens
TextOf(toks) ==
  IF TokLen(toks) = 0 THEN EmptyText
  ELSE [len |-> TokLen(toks), cut |-> FALSE, how |-> "legacy", base |-> <<>>,
        frags |-> toks]

\* Preferences.from_dict(data)
FromDict(data) ==
  LET stored == Get(data, "preference_memory", EmptyText) IN
  [preference_memory |-> IF stored # EmptyText THEN stored
                         ELSE TextOf(Join(OldParts(data), BLANK)),
   pending_updates |-> Get(data, "pending_updates", <<>>),
   query_history |-> Get(data, "query_history", <<>>),
   feedback_history |-> Get(data, "feedback_history", <<>>),
   settings |-> [k \in SettingNames |-> Get(Get(data, "settings", <<>>), k, <<>>)],
   last_updated |-> Get(data, "last_updated", 0)]

\* _load_preferences(): from_dict of the file when it exists and parses,
\* Preferences() otherwise
LoadPreferences(file) ==
  IF file.kind = "json" THEN FromDict(file) ELSE FromDict([kind |-> "none"])

\* the file before anything was written: absent, or as left by an earlier run
InitDisk(mem) ==
  IF mem = EmptyText THEN [kind |-> "absent"]
  ELSE [kind |-> "json", preference_memory |-> mem, pending_updates |-> <<>>,
        feedback_history |-> <<>>, query_history |-> <<>>,
        settings |-> NoSettings, last_updated |-> 0]

Init ==
  /\ preference_memory \in InitMemories
  /\ pending_updates = <<>>
  /\ feedback_history = <<>>
  /\ query_history = <<>>
  /\ settings = NoSettings
  /\ last_updated = 0
  /\ lock = {}
  /\ disk = InitDisk(preference_memory)
  /\ pc = [t \in Threads |-> IF t = FG THEN "idle" ELSE "unborn"]
  /\ op = "none"
  /\ pending = [t \in Threads |-> <<>>]
  /\ current_memory = [t \in Threads |-> EmptyText]
  /\ new_memory = [t \in Threads |-> EmptyText]
  /\ notification = [t \in Threads |-> "None"]
  /\ restored = [t \in Threads |-> <<>>]
  /\ compress_response = [t \in Threads |-> <<>>]
  /\ http = [t \in Threads |-> NoHttp]
  /\ exc = [t \in Threads |-> "none"]
  /\ result = [t \in Threads |-> NoResult]
  /\ enqueued = {}
  /\ folded = {}
  /\ discarded = {}
  /\ calls = [t \in Threads |-> NoCalls]
  /\ mark = [t \in Threads |-> NoMark]
  /\ notified = [t \in Threads |-> 0]
  /\ nextId = 1
  /\ inserted = NoRecords
  /\ ops = 0
  /\ iofails = 0

Range(seq) == { seq[i] : i \in 1..Len(seq) }

\* KeepLast with the bug of keeping the oldest entries, lst[:n]
KeepFirst(lst, n) ==
  IF Len(lst) > n THEN SubSeq(lst, 1, n) ELSE lst

\* lst[-n:]
KeepLast(lst, n) ==
  IF Len(lst) > n THEN SubSeq(lst, Len(lst) - n + 1, Len(lst)) ELSE lst

(* ----------------------- foreground operations ------------------------ *)
FgStart(kind) ==
  /\ pc[FG] = "idle"
  /\ ops < MaxOps
  /\ ops' = ops + 1
  /\ op' = kind

\* add_preference_update(update_text, save=True) up to save_preferences:
\* if update_text and update_text.strip(): pending_updates.append(strip())
Enqueue(update_text) ==
  /\ IF Strip(update_text) # <<>>
     THEN LET frag == [id |-> nextId, txt |-> Strip(update_text)] IN
          /\ pending_updates' = Append(pending_updates, frag)
          /\ enqueued' = enqueued \cup {frag}
          /\ nextId' = nextId + 1
          /\ pc' = [pc EXCEPT ![FG] = "save"]
     ELSE UNCHANGED <<pending_updates, enqueued, nextId, pc>>
  /\ UNCHANGED <<preference_memory, feedback_history, last_updated, lock, disk,
                 locals, folded, discarded, calls, mark, notified, iofails>>
  /\ UNCHANGED query_history
  /\ UNCHANGED inserted
  /\ UNCHANGED settings

\* add_preference_update(update_text) called by the foreground
AddPreferenceUpdate(update_text) ==
  /\ FgStart("enqueue")
  /\ Enqueue(update_text)

\* schedule_memory_update(new_info, on_complete): `if not new_info or not
\* new_info.strip(): return`, then add_preference_update(new_info, save=True);
\* the thread is started by StartThread
ScheduleMemoryUpdate(new_info) ==
  /\ \E w \in Workers : pc[w] = "unborn"
  /\ FgStart("schedule")
  /\ Enqueue(new_info)

\* threading.Thread(target=_run_update, daemon=True).start(), and the new
\* thread's llm = get_llm_client(), which touches nothing of the store; when
\* it raises (no API key), `except Exception: pass` ends the thread
StartThread(client_ok) ==
  /\ pc[FG] = "spawn"
  /\ LET w == CHOOSE x \in Workers :
               pc[x] = "unborn" /\ \A y \in Workers : pc[y] = "unborn" => x <= y IN
     pc' = [pc EXCEPT ![FG] = "idle", ![w] = IF client_ok THEN "drain" ELSE "done"]
  /\ UNCHANGED <<prefs, lock, disk, op, locals, history, ops, iofails>>

\* datetime.now().isoformat() of a record: the calls of the foreground are
\* numbered, and a record carries the number of the call that made it
Now == ops + 1

\* QueryRecord(timestamp=..., topic=..., ...)
QueryRecord == [timestamp |-> Now, topic |-> "t"]

\* FeedbackRecord(timestamp=..., ..., feedback_type=..., ...)
FeedbackRecord == [timestamp |-> Now, feedback_type |-> "interested"]

\* add_query_record(...): the append and the cap, before save_preferences
AddQueryRecord ==
  /\ FgStart("query")
  /\ query_history' =
       KeepLast(Append(query_history, QueryRecord),
                MAX_QUERY_HISTORY)
  /\ pc' = [pc EXCEPT ![FG] = "save"]
  /\ inserted' = [inserted EXCEPT !.query = Append(@, QueryRecord)]
  /\ UNCHANGED <<preference_memory, pending_updates, feedback_history,
                 last_updated, lock, disk, locals, enqueued, folded, discarded,
                 calls, mark, notified, nextId, iofails>>
  /\ UNCHANGED settings

\* add_feedback(...): the append and the cap, before save_preferences
AddFeedback ==
  /\ FgStart("feedback")
  /\ feedback_history' =
       KeepLast(Append(feedback_history, FeedbackRecord),
                MAX_FEEDBACK_HISTORY)
  /\ pc' = [pc EXCEPT ![FG] = "save"]
  /\ inserted' = [inserted EXCEPT !.feedback = Append(@, FeedbackRecord)]
  /\ UNCHANGED <<preference_memory, pending_updates, query_history,
                 last_updated, lock, disk, locals, enqueued, folded, discarded,
                 calls, mark, notified, nextId, iofails>>
  /\ UNCHANGED settings

\* set_language(...), ..., set_arxiv_categories(...): the assignment, before
\* save_preferences
SetSetting(name, value) ==
  /\ FgStart("set")
  /\ settings' = [settings EXCEPT ![name] = value]
  /\ pc' = [pc EXCEPT ![FG] = "save"]
  /\ UNCHANGED <<preference_memory, pending_updates, feedback_history,
                 query_history, last_updated, lock, disk, locals, history,
                 iofails>>

\* the program exits and is started again: PreferenceManager() loads the file
Restart ==
  /\ FgStart("load")
  /\ LET p == LoadPreferences(disk) IN
     /\ preference_memory' = p.preference_memory
     /\ pending_updates' = p.pending_updates
     /\ query_history' = p.query_history
     /\ feedback_history' = p.feedback_history
     /\ settings' = p.settings
     /\ last_updated' = p.last_updated
  /\ lock' = {}
  /\ pc' = [t \in Threads |-> IF t = FG THEN "idle" ELSE "unborn"]
  /\ pending' = [t \in Threads |-> <<>>]
  /\ current_memory' = [t \in Threads |-> EmptyText]
  /\ new_memory' = [t \in Threads |-> EmptyText]
  /\ notification' = [t \in Threads |-> "None"]
  /\ restored' = [t \in Threads |-> <<>>]
  /\ compress_response' = [t \in Threads |-> <<>>]
  /\ http' = [t \in Threads |-> NoHttp]
  /\ exc' = [t \in Threads |-> "none"]
  /\ result' = [t \in Threads |-> NoResult]
  /\ UNCHANGED <<disk, history, iofails>>

\* ClearMemory with the bug of leaving pending_updates as it is
ClearMemoryKeepQueue ==
  /\ FgStart("clear")
  /\ preference_memory' = EmptyText
  /\ pc' = [pc EXCEPT ![FG] = "save"]
  /\ UNCHANGED <<pending_updates, feedback_history, last_updated, lock, disk,
                 locals, history, iofails>>
  /\ UNCHANGED query_history
  /\ UNCHANGED settings

\* clear_memory(): the two assignments, before save_preferences
ClearMemory ==
  /\ FgStart("clear")
  /\ preference_memory' = EmptyText
  /\ pending_updates' = <<>>
  /\ discarded' = discarded \cup Range(pending_updates)
  /\ pc' = [pc EXCEPT ![FG] = "save"]
  /\ UNCHANGED <<feedback_history, last_updated, lock, disk, locals,
                 enqueued, folded, calls, mark, notified, nextId, iofails>>
  /\ UNCHANGED query_history
  /\ UNCHANGED inserted
  /\ UNCHANGED settings

\* the foreground calls _process_memory_update itself (cli.py --add-memory)
MergeNow ==
  /\ FgStart("merge")
  /\ pc' = [pc EXCEPT ![FG] = "drain"]
  /\ UNCHANGED <<prefs, lock, disk, locals, history, iofails>>


(* -------------------------- save_preferences -------------------------- *)
\* a thread that is inside _process_memory_update
Merging(t) == t # FG \/ op = "merge"

\* save_preferences(): with self._lock: last_updated = datetime.now(), a
\* stamp later than the one before; open(file, "w"); json.dump(to_dict(), f).
\* Nothing another thread does without the lock reads the lock, the stamp or
\* the file, so the locked section is one step.  A merge then returns
\* {"status": "success", "notification": notification}.
SavePreferences(t) ==
  /\ pc[t] = "save"
  /\ lock = {}
  /\ last_updated' = last_updated + 1
  /\ disk' = [ToDict EXCEPT !.last_updated = last_updated + 1]
  /\ IF Merging(t)
     THEN /\ result' = [result EXCEPT ![t] =
                 [status |-> "success", notification |-> notification[t],
                  message |-> ""]]
          /\ pc' = [pc EXCEPT ![t] = "ret"]
     ELSE /\ pc' = [pc EXCEPT ![t] = IF op = "schedule" THEN "spawn" ELSE "idle"]
          /\ UNCHANGED result
  /\ UNCHANGED <<preference_memory, pending_updates, feedback_history, lock, op,
                 pending, current_memory, new_memory, notification, restored,
                 exc, history, ops, iofails>>
  /\ UNCHANGED compress_response
  /\ UNCHANGED query_history
  /\ UNCHANGED settings
  /\ UNCHANGED http

\* SaveFail with the bug of a commit outside the try block: the exception
\* of save_preferences leaves _process_memory_update
SaveFailPropagate(t) ==
  /\ pc[t] = "save"
  /\ lock = {}
  /\ iofails < MaxIOFail
  /\ iofails' = iofails + 1
  /\ last_updated' = last_updated + 1
  /\ disk' = [kind |-> "truncated"]
  /\ pc' = [pc EXCEPT ![t] = IF t = FG THEN "idle" ELSE "done"]
  /\ UNCHANGED <<preference_memory, pending_updates, feedback_history, lock, op,
                 locals, history, ops>>
  /\ UNCHANGED query_history
  /\ UNCHANGED settings

\* SaveFail with the bug of undoing the commit when the write fails
SaveFailRollback(t) ==
  /\ pc[t] = "save"
  /\ lock = {}
  /\ iofails < MaxIOFail
  /\ iofails' = iofails + 1
  /\ last_updated' = last_updated + 1
  /\ disk' = [kind |-> "truncated"]
  /\ IF Merging(t)
     THEN /\ exc' = [exc EXCEPT ![t] = "io"]
          /\ pc' = [pc EXCEPT ![t] = "requeue"]
          /\ preference_memory' = current_memory[t]
     ELSE /\ pc' = [pc EXCEPT ![t] = "idle"]
          /\ UNCHANGED <<exc, preference_memory>>
  /\ UNCHANGED <<pending_updates, feedback_history, lock, op,
                 pending, current_memory, new_memory, notification, restored,
                 compress_response, result, history, ops>>
  /\ UNCHANGED query_history
  /\ UNCHANGED settings
  /\ UNCHANGED http

\* save_preferences(): the file is opened (and so truncated) and the write
\* raises OSError; the lock is released and the exception leaves
\* save_preferences; inside a merge it is caught by `except Exception`
SaveFail(t) ==
  /\ pc[t] = "save"
  /\ lock = {}
  /\ iofails < MaxIOFail
  /\ iofails' = iofails + 1
  /\ last_updated' = last_updated + 1
  /\ disk' = [kind |-> "truncated"]
  /\ IF Merging(t)
     THEN /\ exc' = [exc EXCEPT ![t] = "io"]
          /\ pc' = [pc EXCEPT ![t] = "requeue"]
     ELSE /\ pc' = [pc EXCEPT ![t] = "idle"]
          /\ UNCHANGED exc
  /\ UNCHANGED <<preference_memory, pending_updates, feedback_history, lock, op,
                 pending, current_memory, new_memory, notification, restored,
                 result, history, ops>>
  /\ UNCHANGED compress_response
  /\ UNCHANGED query_history
  /\ UNCHANGED settings
  /\ UNCHANGED http

(* ----------------------- _process_memory_update ----------------------- *)
\* with self._lock: pending = self.preferences.pending_updates.copy()
DrainCopy(t) ==
  /\ pc[t] = "drain"
  /\ lock = {}
  /\ lock' = {t}
  /\ pending' = [pending EXCEPT ![t] = pending_updates]
  /\ mark' = [mark EXCEPT ![t].drain = nextId]
  /\ pc' = [pc EXCEPT ![t] = "drain_clear"]
  /\ UNCHANGED <<prefs, disk, op, current_memory, new_memory, notification,
                 restored, exc, result, enqueued, folded, discarded, calls,
                 notified, nextId, ops, iofails>>
  /\ UNCHANGED compress_response
  /\ UNCHANGED inserted
  /\ UNCHANGED http

\* DrainClear with the bug of keeping the lock while the merge goes on
DrainClearHold(t) ==
  /\ pc[t] = "drain_clear"
  /\ pending_updates' = <<>>
  /\ IF pending[t] = <<>>
     THEN /\ result' = [result EXCEPT ![t] =
                 [status |-> "no_updates", notification |-> "None", message |-> ""]]
          /\ pc' = [pc EXCEPT ![t] = "ret"]
          /\ lock' = {}
     ELSE /\ pc' = [pc EXCEPT ![t] = "prompt"]
          /\ UNCHANGED <<result, lock>>
  /\ UNCHANGED <<preference_memory, feedback_history, last_updated, disk,
                 op, pending, current_memory, new_memory, notification, restored,
                 exc, history, ops, iofails>>
  /\ UNCHANGED compress_response
  /\ UNCHANGED query_history
  /\ UNCHANGED settings
  /\ UNCHANGED http

\* DrainClear with the bug of a copy that is not followed by the clear
DrainClearKeep(t) ==
  /\ pc[t] = "drain_clear"
  /\ lock' = {}
  /\ IF pending[t] = <<>>
     THEN /\ result' = [result EXCEPT ![t] =
                 [status |-> "no_updates", notification |-> "None", message |-> ""]]
          /\ pc' = [pc EXCEPT ![t] = "ret"]
     ELSE /\ pc' = [pc EXCEPT ![t] = "prompt"]
          /\ UNCHANGED result
  /\ UNCHANGED <<prefs, disk, op, pending, current_memory, new_memory,
                 notification, restored, exc, history, ops, iofails>>
  /\ UNCHANGED compress_response
  /\ UNCHANGED http

\* self.preferences.pending_updates = []; the lock is released;
\* if not pending: return {"status": "no_updates"}
DrainClear(t) ==
  /\ pc[t] = "drain_clear"
  /\ pending_updates' = <<>>
  /\ lock' = {}
  /\ IF pending[t] = <<>>
     THEN /\ result' = [result EXCEPT ![t] =
                 [status |-> "no_updates", notification |-> "None", message |-> ""]]
          /\ pc' = [pc EXCEPT ![t] = "ret"]
     ELSE /\ pc' = [pc EXCEPT ![t] = "prompt"]
          /\ UNCHANGED result
  /\ UNCHANGED <<preference_memory, feedback_history, last_updated, disk,
                 op, pending, current_memory, new_memory, notification, restored,
                 exc, history, ops, iofails>>
  /\ UNCHANGED compress_response
  /\ UNCHANGED query_history
  /\ UNCHANGED settings
  /\ UNCHANGED http

\* current_memory = self.preferences.preference_memory; the prompt is built
\* and llm_client.chat(messages, temperature=0.3) is called
Prompt(t) ==
  /\ pc[t] = "prompt"
  /\ current_memory' = [current_memory EXCEPT ![t] = preference_memory]
  /\ calls' = [calls EXCEPT ![t].merge = @ + 1]
  /\ pc' = [pc EXCEPT ![t] = "chat"]
  /\ UNCHANGED <<prefs, lock, disk, op, pending, new_memory, notification,
                 restored, exc, result, enqueued, folded, discarded, mark,
                 notified, nextId, ops, iofails>>
  /\ UNCHANGED compress_response
  /\ UNCHANGED inserted
  /\ UNCHANGED http

\* ChatReturn with the bug of `>=` for `>` in the length test
ChatReturnGe(t, response) ==
  /\ pc[t] = "chat"
  /\ LET stripped == MergedText(response.len, current_memory[t], pending[t]) IN
     /\ new_memory' = [new_memory EXCEPT ![t] = stripped]
     /\ notification' = [notification EXCEPT ![t] = "None"]
     /\ IF stripped.len >= MAX_MEMORY_LENGTH
        THEN /\ calls' = [calls EXCEPT ![t].compress = @ + 1,
                                       ![t].merged_len = stripped.len]
             /\ pc' = [pc EXCEPT ![t] = "compress"]
        ELSE /\ calls' = [calls EXCEPT ![t].merged_len = stripped.len]
             /\ pc' = [pc EXCEPT ![t] = "commit"]
  /\ UNCHANGED <<prefs, lock, disk, op, pending, current_memory, restored,
                 exc, result, enqueued, folded, discarded, mark, notified,
                 nextId, ops, iofails>>
  /\ UNCHANGED compress_response
  /\ UNCHANGED inserted
  /\ UNCHANGED http

\* chat returns: new_memory = response.strip(); notification = None;
\* if len(new_memory) > MAX_MEMORY_LENGTH, _compress_memory calls chat again
ChatReturn(t, response) ==
  /\ pc[t] = "chat"
  /\ LET stripped == MergedText(response.len, current_memory[t], pending[t]) IN
     /\ new_memory' = [new_memory EXCEPT ![t] = stripped]
     /\ notification' = [notification EXCEPT ![t] = "None"]
     /\ IF stripped.len > MAX_MEMORY_LENGTH
        THEN /\ calls' = [calls EXCEPT ![t].compress = @ + 1,
                                       ![t].merged_len = stripped.len]
             /\ pc' = [pc EXCEPT ![t] = "compress"]
        ELSE /\ calls' = [calls EXCEPT ![t].merged_len = stripped.len]
             /\ pc' = [pc EXCEPT ![t] = "commit"]
  /\ UNCHANGED <<prefs, lock, disk, op, pending, current_memory, restored,
                 exc, result, enqueued, folded, discarded, mark, notified,
                 nextId, ops, iofails>>
  /\ UNCHANGED compress_response
  /\ UNCHANGED inserted
  /\ UNCHANGED http

\* the exceptions LLMClient.chat raises: PermissionError (401), or
\* ConnectionError / RuntimeError (network, timeout, rate limit, server)
ChatErrors == {"auth", "transient"}

\* chat raises inside the try block of _process_memory_update
ChatRaise(t, e) ==
  /\ pc[t] = "chat"
  /\ exc' = [exc EXCEPT ![t] = e]
  /\ mark' = [mark EXCEPT ![t].raised = nextId]
  /\ pc' = [pc EXCEPT ![t] = "requeue"]
  /\ UNCHANGED <<prefs, lock, disk, op, pending, current_memory, new_memory,
                 notification, restored, result, enqueued, folded, discarded,
                 calls, notified, nextId, ops, iofails>>
  /\ UNCHANGED compress_response
  /\ UNCHANGED inserted
  /\ UNCHANGED http

\* _compress_memory: chat returned; the response is parsed
CompressReturn(t, response) ==
  /\ pc[t] = "compress"
  /\ new_memory' = [new_memory EXCEPT ![t] =
         CompressedText(TokLen(ParseCompressed(response).compressed),
                        ParseCompressed(response).compressed, new_memory[t])]
  /\ notification' = [notification EXCEPT ![t] = CompressNotification(response)]
  /\ pc' = [pc EXCEPT ![t] = "commit"]
  /\ UNCHANGED <<prefs, lock, disk, op, pending, current_memory, restored,
                 exc, result, history, ops, iofails>>
  /\ compress_response' = [compress_response EXCEPT ![t] = <<response>>]
  /\ UNCHANGED http

\* CompressRaise with the bug of a fallback that returns no notification
CompressRaiseSilent(t) ==
  /\ pc[t] = "compress"
  /\ new_memory' = [new_memory EXCEPT ![t] =
         Slice(new_memory[t], TARGET_MEMORY_LENGTH)]
  /\ notification' = [notification EXCEPT ![t] = "None"]
  /\ pc' = [pc EXCEPT ![t] = "commit"]
  /\ UNCHANGED <<prefs, lock, disk, op, pending, current_memory, restored,
                 exc, result, history, ops, iofails>>
  /\ UNCHANGED compress_response
  /\ UNCHANGED http

\* CompressRaise with the bug of no `except` in _compress_memory: the
\* exception reaches the handler of _process_memory_update
CompressRaiseThrow(t) ==
  /\ pc[t] = "compress"
  /\ exc' = [exc EXCEPT ![t] = "transient"]
  /\ mark' = [mark EXCEPT ![t].raised = nextId]
  /\ pc' = [pc EXCEPT ![t] = "requeue"]
  /\ UNCHANGED <<prefs, lock, disk, op, pending, current_memory, new_memory,
                 notification, restored, result, enqueued, folded, discarded,
                 calls, notified, nextId, ops, iofails>>
  /\ UNCHANGED compress_response
  /\ UNCHANGED inserted
  /\ UNCHANGED http

\* _compress_memory: chat raised; fallback memory[:TARGET_MEMORY_LENGTH]
CompressRaise(t) ==
  /\ pc[t] = "compress"
  /\ new_memory' = [new_memory EXCEPT ![t] =
         Slice(new_memory[t], TARGET_MEMORY_LENGTH)]
  /\ notification' = [notification EXCEPT ![t] = "truncated"]
  /\ pc' = [pc EXCEPT ![t] = "commit"]
  /\ UNCHANGED <<prefs, lock, disk, op, pending, current_memory, restored,
                 exc, result, history, ops, iofails>>
  /\ UNCHANGED compress_response
  /\ UNCHANGED http

\* Commit with the bug of storing the text read before the call
CommitOld(t) ==
  /\ pc[t] = "commit"
  /\ preference_memory' = current_memory[t]
  /\ folded' = folded \cup Range(pending[t])
  /\ pc' = [pc EXCEPT ![t] = "save"]
  /\ UNCHANGED <<pending_updates, feedback_history, last_updated, lock, disk,
                 op, locals, enqueued, discarded, calls, mark,
                 notified, nextId, ops, iofails>>
  /\ UNCHANGED query_history
  /\ UNCHANGED inserted
  /\ UNCHANGED settings

\* self.preferences.preference_memory = new_memory, before save_preferences
Commit(t) ==
  /\ pc[t] = "commit"
  /\ preference_memory' = new_memory[t]
  /\ folded' = folded \cup Range(pending[t])
  /\ pc' = [pc EXCEPT ![t] = "save"]
  /\ UNCHANGED <<pending_updates, feedback_history, last_updated, lock, disk,
                 op, locals, enqueued, discarded, calls, mark,
                 notified, nextId, ops, iofails>>
  /\ UNCHANGED query_history
  /\ UNCHANGED inserted
  /\ UNCHANGED settings

\* RequeueRead with the bug of putting the drained fragments at the back
RequeueReadBack(t) ==
  /\ pc[t] = "requeue"
  /\ lock = {}
  /\ lock' = {t}
  /\ restored' = [restored EXCEPT ![t] = pending_updates \o pending[t]]
  /\ pc' = [pc EXCEPT ![t] = "requeue_store"]
  /\ UNCHANGED <<prefs, disk, op, pending, current_memory, new_memory,
                 notification, exc, result, history, ops, iofails>>
  /\ UNCHANGED compress_response
  /\ UNCHANGED http

\* except Exception: with self._lock: pending + self.preferences.pending_updates
RequeueRead(t) ==
  /\ pc[t] = "requeue"
  /\ lock = {}
  /\ lock' = {t}
  /\ restored' = [restored EXCEPT ![t] = pending[t] \o pending_updates]
  /\ pc' = [pc EXCEPT ![t] = "requeue_store"]
  /\ UNCHANGED <<prefs, disk, op, pending, current_memory, new_memory,
                 notification, exc, result, history, ops, iofails>>
  /\ UNCHANGED compress_response
  /\ UNCHANGED http

\* RequeueStore with the bug of leaving the locked section without
\* releasing the lock
RequeueStoreKeepLock(t) ==
  /\ pc[t] = "requeue_store"
  /\ pending_updates' = restored[t]
  /\ result' = [result EXCEPT ![t] =
         [status |-> "error", notification |-> "None", message |-> exc[t]]]
  /\ restored' = [restored EXCEPT ![t] = <<>>]
  /\ pc' = [pc EXCEPT ![t] = "ret"]
  /\ UNCHANGED <<preference_memory, feedback_history, query_history, settings,
                 last_updated, lock, disk, op, pending, current_memory,
                 new_memory, notification, compress_response, exc, history,
                 ops, iofails>>
  /\ UNCHANGED http

\* RequeueStore with the bug of returning the error without the restore
RequeueStoreLost(t) ==
  /\ pc[t] = "requeue_store"
  /\ lock' = {}
  /\ result' = [result EXCEPT ![t] =
         [status |-> "error", notification |-> "None", message |-> exc[t]]]
  /\ restored' = [restored EXCEPT ![t] = <<>>]
  /\ pc' = [pc EXCEPT ![t] = "ret"]
  /\ UNCHANGED <<prefs, disk, op, pending, current_memory, new_memory,
                 notification, exc, history, ops, iofails>>
  /\ UNCHANGED compress_response
  /\ UNCHANGED http

\* self.preferences.pending_updates = (...); the lock is released;
\* return {"status": "error", "message": str(e)}
RequeueStore(t) ==
  /\ pc[t] = "requeue_store"
  /\ pending_updates' = restored[t]
  /\ lock' = {}
  /\ result' = [result EXCEPT ![t] =
         [status |-> "error", notification |-> "None", message |-> exc[t]]]
  /\ restored' = [restored EXCEPT ![t] = <<>>]
  /\ pc' = [pc EXCEPT ![t] = "ret"]
  /\ UNCHANGED <<preference_memory, feedback_history, last_updated, disk,
                 op, pending, current_memory, new_memory, notification,
                 exc, history, ops, iofails>>
  /\ UNCHANGED compress_response
  /\ UNCHANGED query_history
  /\ UNCHANGED settings
  /\ UNCHANGED http

(* ------------------ the callers of _process_memory_update -------------- *)
\* the locals of a call that has returned
NoLocals(f, t, v) == [f EXCEPT ![t] = v]

\* RunUpdateEnd with the bug of calling on_complete whatever the result
RunUpdateEndAlways(w, cb) ==
  /\ w \in Workers
  /\ pc[w] = "ret"
  /\ notified' = [notified EXCEPT ![w] = IF cb THEN @ + 1 ELSE @]
  /\ pc' = [pc EXCEPT ![w] = "done"]
  /\ pending' = NoLocals(pending, w, <<>>)
  /\ current_memory' = NoLocals(current_memory, w, EmptyText)
  /\ new_memory' = NoLocals(new_memory, w, EmptyText)
  /\ notification' = NoLocals(notification, w, "None")
  /\ exc' = NoLocals(exc, w, "none")
  /\ result' = NoLocals(result, w, NoResult)
  /\ calls' = NoLocals(calls, w, NoCalls)
  /\ mark' = NoLocals(mark, w, NoMark)
  /\ UNCHANGED <<prefs, lock, disk, op, restored, enqueued, folded, discarded,
                 nextId, ops, iofails>>
  /\ compress_response' = NoLocals(compress_response, w, <<>>)
  /\ http' = NoLocals(http, w, NoHttp)
  /\ UNCHANGED inserted

\* _run_update: if on_complete and result.get("notification"): on_complete(...)
\* and the thread ends.  cb: whether the on_complete given to
\* schedule_memory_update is a callable or None; it is read only here
RunUpdateEnd(w, cb) ==
  /\ w \in Workers
  /\ pc[w] = "ret"
  /\ notified' = [notified EXCEPT ![w] =
        IF cb /\ result[w].notification # "None" THEN @ + 1 ELSE @]
  /\ pc' = [pc EXCEPT ![w] = "done"]
  /\ pending' = NoLocals(pending, w, <<>>)
  /\ current_memory' = NoLocals(current_memory, w, EmptyText)
  /\ new_memory' = NoLocals(new_memory, w, EmptyText)
  /\ notification' = NoLocals(notification, w, "None")
  /\ exc' = NoLocals(exc, w, "none")
  /\ result' = NoLocals(result, w, NoResult)
  /\ calls' = NoLocals(calls, w, NoCalls)
  /\ mark' = NoLocals(mark, w, NoMark)
  /\ UNCHANGED <<prefs, lock, disk, op, restored, enqueued, folded, discarded,
                 nextId, ops, iofails>>
  /\ compress_response' = NoLocals(compress_response, w, <<>>)
  /\ http' = NoLocals(http, w, NoHttp)
  /\ UNCHANGED inserted

\* cli.py main(): result.get("status") is tested, a message is printed and
\* the command ends
CliMergeEnd ==
  /\ pc[FG] = "ret"
  /\ pc' = [pc EXCEPT ![FG] = "idle"]
  /\ pending' = NoLocals(pending, FG, <<>>)
  /\ current_memory' = NoLocals(current_memory, FG, EmptyText)
  /\ new_memory' = NoLocals(new_memory, FG, EmptyText)
  /\ notification' = NoLocals(notification, FG, "None")
  /\ exc' = NoLocals(exc, FG, "none")
  /\ result' = NoLocals(result, FG, NoResult)
  /\ calls' = NoLocals(calls, FG, NoCalls)
  /\ mark' = NoLocals(mark, FG, NoMark)
  /\ UNCHANGED <<prefs, lock, disk, op, restored, enqueued, folded, discarded,
                 notified, nextId, ops, iofails>>
  /\ compress_response' = NoLocals(compress_response, FG, <<>>)
  /\ http' = NoLocals(http, FG, NoHttp)
  /\ UNCHANGED inserted

(* --------------------------- specification ---------------------------- *)
Next ==
  \/ \E update_text \in Inputs : AddPreferenceUpdate(update_text)
  \/ \E new_info \in Inputs : ScheduleMemoryUpdate(new_info)
  \/ \E client_ok \in BOOLEAN : StartThread(client_ok)
  \/ AddFeedback
  \/ ClearMemory
  \/ MergeNow
  \/ \E t \in Threads : SavePreferences(t)
  \/ \E t \in Threads : DrainCopy(t)
  \/ \E t \in Threads : DrainClear(t)
  \/ \E t \in Threads : Prompt(t)
  \/ \E t \in Threads, response \in MergeResponses : ChatReturn(t, response)
  \/ \E t \in Threads, e \in ChatErrors : ChatRaise(t, e)
  \/ \E t \in Threads, response \in CompressResponses : CompressReturn(t, response)
  \/ \E t \in Threads : CompressRaise(t)
  \/ \E t \in Threads : Commit(t)
  \/ \E t \in Threads : RequeueRead(t)
  \/ \E t \in Threads : RequeueStore(t)
  \/ \E w \in Workers, cb \in BOOLEAN : RunUpdateEnd(w, cb)
  \/ CliMergeEnd

Spec == Init /\ [][Next]_vars

\* the same program on a file system whose writes can fail
NextIO ==
  \/ Next
  \/ \E t \in Threads : SaveFail(t)

SpecIO == Init /\ [][NextIO]_vars


(* -------------- the compression protocol on any response --------------- *)
\* the tokens a compression response is made of
Alphabet == { CM, RT, COLON, BLANK, Word(3, "abc"), Word(4, "None"),
              Word(4, "NONE") }

\* every response of at most MaxToks tokens
ParseInputs == UNION { [1..n -> Alphabet] : n \in 0..MaxToks }

\* the foreground's merge (--add-memory) has drained one fragment, its merge
\* response was 2001 characters long and the compression call is in flight
InitParse ==
  LET frag == [id |-> 1, txt |-> <<"a">>]
      merged == MergedText(MAX_MEMORY_LENGTH + 1, EmptyText, <<frag>>) IN
  /\ preference_memory = EmptyText
  /\ pending_updates = <<>>
  /\ feedback_history = <<>>
  /\ query_history = <<>>
  /\ settings = NoSettings
  /\ last_updated = 1
  /\ lock = {}
  /\ disk = [kind |-> "json", preference_memory |-> EmptyText,
             pending_updates |-> <<frag>>, feedback_history |-> <<>>,
             query_history |-> <<>>, settings |-> NoSettings,
             last_updated |-> 1]
  /\ pc = [t \in Threads |-> IF t = FG THEN "compress" ELSE "unborn"]
  /\ op = "merge"
  /\ pending = [t \in Threads |-> IF t = FG THEN <<frag>> ELSE <<>>]
  /\ current_memory = [t \in Threads |-> EmptyText]
  /\ new_memory = [t \in Threads |-> IF t = FG THEN merged ELSE EmptyText]
  /\ notification = [t \in Threads |-> "None"]
  /\ restored = [t \in Threads |-> <<>>]
  /\ compress_response = [t \in Threads |-> <<>>]
  /\ http = [t \in Threads |-> NoHttp]
  /\ exc = [t \in Threads |-> "none"]
  /\ result = [t \in Threads |-> NoResult]
  /\ enqueued = {frag}
  /\ folded = {}
  /\ discarded = {}
  /\ calls = [t \in Threads |->
                IF t = FG
                THEN [merge |-> 1, compress |-> 1,
                      merged_len |-> MAX_MEMORY_LENGTH + 1]
                ELSE NoCalls]
  /\ mark = [t \in Threads |-> IF t = FG THEN [drain |-> 2, raised |-> 0]
                                ELSE NoMark]
  /\ notified = [t \in Threads |-> 0]
  /\ nextId = 2
  /\ inserted = NoRecords
  /\ ops = 2
  /\ iofails = 0

NextParse ==
  \/ /\ pc[FG] = "compress"
     /\ \E response \in ParseInputs : CompressReturn(FG, response)
  \/ CompressRaise(FG)
  \/ Commit(FG)
  \/ SavePreferences(FG)
  \/ CliMergeEnd

SpecParse == InitParse /\ [][NextParse]_vars

(* ------------------------------ scheduling ----------------------------- *)
\* a step of thread t inside _process_memory_update
MergeStep(t) ==
  \/ DrainCopy(t)
  \/ DrainClear(t)
  \/ Prompt(t)
  \/ \E response \in MergeResponses : ChatReturn(t, response)
  \/ \E e \in ChatErrors : ChatRaise(t, e)
  \/ \E response \in CompressResponses : CompressReturn(t, response)
  \/ CompressRaise(t)
  \/ Commit(t)
  \/ Merging(t) /\ (SavePreferences(t) \/ SaveFail(t))
  \/ RequeueRead(t)
  \/ RequeueStore(t)

\* a thread that can run is run, and a completion call returns or raises
Fair == \A t \in Threads : WF_vars(MergeStep(t))

\* the program with failing writes, the foreground starting LiveOps operations
NextLive ==
  \/ ops < LiveOps /\ \E update_text \in Inputs : AddPreferenceUpdate(update_text)
  \/ ops < LiveOps /\ \E new_info \in Inputs : ScheduleMemoryUpdate(new_info)
  \/ \E client_ok \in BOOLEAN : StartThread(client_ok)
  \/ ops < LiveOps /\ AddFeedback
  \/ ops < LiveOps /\ ClearMemory
  \/ ops < LiveOps /\ MergeNow
  \/ \E t \in Threads : SavePreferences(t)
  \/ \E t \in Threads : SaveFail(t)
  \/ \E t \in Threads : DrainCopy(t)
  \/ \E t \in Threads : DrainClear(t)
  \/ \E t \in Threads : Prompt(t)
  \/ \E t \in Threads, response \in MergeResponses : ChatReturn(t, response)
  \/ \E t \in Threads, e \in ChatErrors : ChatRaise(t, e)
  \/ \E t \in Threads, response \in CompressResponses : CompressReturn(t, response)
  \/ \E t \in Threads : CompressRaise(t)
  \/ \E t \in Threads : Commit(t)
  \/ \E t \in Threads : RequeueRead(t)
  \/ \E t \in Threads : RequeueStore(t)
  \/ \E w \in Workers, cb \in BOOLEAN : RunUpdateEnd(w, cb)
  \/ CliMergeEnd

SpecLive == Init /\ [][NextLive]_vars /\ Fair


(* ---------------- the history lists at their caps ---------------------- *)
\* the n query records of a preferences file, written by earlier runs
StoredQueries(n) == [i \in 1..n |-> [timestamp |-> i - n, topic |-> "t"]]

\* the n feedback records of a preferences file, written by earlier runs
StoredFeedback(n) ==
  [i \in 1..n |-> [timestamp |-> i - n, feedback_type |-> "interested"]]

\* lengths within a cap: none, or close enough for MaxOps calls to exceed it
NearCap(cap) == {0} \cup { n \in (cap - MaxOps)..cap : n >= 0 }

\* PreferenceManager() on a file whose history lists are within the caps
InitHist ==
  /\ preference_memory = FileText(TARGET_MEMORY_LENGTH)
  /\ pending_updates = <<>>
  /\ \E nq \in NearCap(MAX_QUERY_HISTORY), nf \in NearCap(MAX_FEEDBACK_HISTORY) :
       /\ query_history = StoredQueries(nq)
       /\ feedback_history = StoredFeedback(nf)
  /\ settings = NoSettings
  /\ inserted = [query |-> query_history, feedback |-> feedback_history]
  /\ last_updated = 0
  /\ lock = {}
  /\ disk = [ToDict EXCEPT !.last_updated = 0]
  /\ pc = [t \in Threads |-> IF t = FG THEN "idle" ELSE "unborn"]
  /\ op = "none"
  /\ pending = [t \in Threads |-> <<>>]
  /\ current_memory = [t \in Threads |-> EmptyText]
  /\ new_memory = [t \in Threads |-> EmptyText]
  /\ notification = [t \in Threads |-> "None"]
  /\ restored = [t \in Threads |-> <<>>]
  /\ compress_response = [t \in Threads |-> <<>>]
  /\ http = [t \in Threads |-> NoHttp]
  /\ exc = [t \in Threads |-> "none"]
  /\ result = [t \in Threads |-> NoResult]
  /\ enqueued = {}
  /\ folded = {}
  /\ discarded = {}
  /\ calls = [t \in Threads |-> NoCalls]
  /\ mark = [t \in Threads |-> NoMark]
  /\ notified = [t \in Threads |-> 0]
  /\ nextId = 1
  /\ ops = 0
  /\ iofails = 0

\* the foreground's record keeping, with fragments added in between
NextHist ==
  \/ AddQueryRecord
  \/ AddFeedback
  \/ \E update_text \in Inputs : AddPreferenceUpdate(update_text)
  \/ SavePreferences(FG)

SpecHist == InitHist /\ [][NextHist]_vars

(* ------------------- starting on a file of any schema ------------------ *)
\* an optional key of the file: <<>> when absent, <<v>> when present
Opt(S) == {<<>>} \cup { <<v>> : v \in S }

\* the values of a legacy keyword or topic list
LegacyLists == { <<>>, <<Word(2, "ml")>>, <<Word(2, "ml"), Word(3, "nlp")>> }

\* the values of the legacy free text
LegacyCustom == { <<>>, <<Word(5, "likes"), BLANK, Word(6, "theory")>> }

\* the JSON object with the keys chosen present
MakeFile(c) ==
  [k \in {"kind"} \cup { x \in DOMAIN c : c[x] # <<>> } |->
     IF k = "kind" THEN "json" ELSE c[k][1]]

\* files written by the earlier schema, with or without a memory text
LegacyFiles ==
  { MakeFile(c) :
      c \in [interested_keywords : Opt(LegacyLists),
             not_interested_keywords : Opt(LegacyLists),
             interested_topics : Opt(LegacyLists),
             not_interested_topics : Opt(LegacyLists),
             custom_preferences : Opt(LegacyCustom),
             preference_memory : Opt({EmptyText, FileText(TARGET_MEMORY_LENGTH)})] }

\* the files PreferenceManager() can find
LoadFiles == LegacyFiles \cup { [kind |-> "absent"], [kind |-> "truncated"] }

\* the arguments of the setters
SettingInputs ==
  { <<"language", <<"en">> >>, <<"max_display", <<5>> >>,
    <<"max_display", <<>> >>, <<"arxiv_categories", << <<"cs.AI">> >> >> }

\* PreferenceManager() on one of these files
InitLoad ==
  /\ disk \in LoadFiles
  /\ LET p == LoadPreferences(disk) IN
     /\ preference_memory = p.preference_memory
     /\ pending_updates = p.pending_updates
     /\ query_history = p.query_history
     /\ feedback_history = p.feedback_history
     /\ settings = p.settings
     /\ last_updated = p.last_updated
  /\ lock = {}
  /\ pc = [t \in Threads |-> IF t = FG THEN "idle" ELSE "unborn"]
  /\ op = "none"
  /\ pending = [t \in Threads |-> <<>>]
  /\ current_memory = [t \in Threads |-> EmptyText]
  /\ new_memory = [t \in Threads |-> EmptyText]
  /\ notification = [t \in Threads |-> "None"]
  /\ restored = [t \in Threads |-> <<>>]
  /\ compress_response = [t \in Threads |-> <<>>]
  /\ http = [t \in Threads |-> NoHttp]
  /\ exc = [t \in Threads |-> "none"]
  /\ result = [t \in Threads |-> NoResult]
  /\ enqueued = {}
  /\ folded = {}
  /\ discarded = {}
  /\ calls = [t \in Threads |-> NoCalls]
  /\ mark = [t \in Threads |-> NoMark]
  /\ notified = [t \in Threads |-> 0]
  /\ nextId = 1
  /\ inserted = NoRecords
  /\ ops = 0
  /\ iofails = 0

\* the foreground's changes, their saves, and restarts of the program
NextLoad ==
  \/ \E update_text \in Inputs : AddPreferenceUpdate(update_text)
  \/ AddQueryRecord
  \/ AddFeedback
  \/ \E s \in SettingInputs : SetSetting(s[1], s[2])
  \/ SavePreferences(FG)
  \/ Restart

SpecLoad == InitLoad /\ [][NextLoad]_vars

(* --------------- a merge with the completion client's loop ------------- *)
\* the exception of _process_memory_update's handler for an exception of chat
RaisedAs(o) == IF o = "PermissionError" THEN "auth" ELSE "transient"

\* cli.py --add-memory: fragments are added and merged by the foreground,
\* every completion call running the loop of LLMClient.chat
NextChat ==
  \/ \E update_text \in Inputs : AddPreferenceUpdate(update_text)
  \/ MergeNow
  \/ SavePreferences(FG)
  \/ DrainCopy(FG)
  \/ DrainClear(FG)
  \/ Prompt(FG)
  \/ \E r \in HttpResponses : HttpRequest(FG, r)
  \/ /\ ChatEnded(FG, "return_text")
     /\ \E response \in MergeResponses : ChatReturn(FG, response)
  \/ /\ ChatEnded(FG, "return_empty")
     /\ ChatReturn(FG, [len |-> 0, pad |-> 0])
  \/ /\ \E o \in {"PermissionError", "ConnectionError", "RuntimeError"} :
          ChatEnded(FG, o) /\ ChatRaise(FG, RaisedAs(o))
  \/ /\ ChatEnded(FG, "return_text")
     /\ \E response \in CompressResponses : CompressReturn(FG, response)
  \/ /\ ChatEnded(FG, "return_empty")
     /\ CompressReturn(FG, <<>>)
  \/ /\ \E o \in {"PermissionError", "ConnectionError", "RuntimeError"} :
          ChatEnded(FG, o) /\ CompressRaise(FG)
  \/ Commit(FG)
  \/ RequeueRead(FG)
  \/ RequeueStore(FG)
  \/ CliMergeEnd

SpecChat == Init /\ [][NextChat]_vars

(* ------------------------------- claims ------------------------------- *)
IsPrefix(a, b) == Len(a) <= Len(b) /\ SubSeq(b, 1, Len(a)) = a

NoDuplicates(seq) == \A i, j \in 1..Len(seq) : seq[i] = seq[j] => i = j

\* a thread whose merge has drained fragments it has not yet given back
Holding(t) ==
  /\ Merging(t)
  /\ pc[t] \in {"prompt", "chat", "compress", "commit", "save", "requeue",
                "requeue_store"}

\* the fragments a merge has drained and neither committed nor requeued
Held(t) ==
  IF /\ Merging(t)
     /\ \/ pc[t] \in {"prompt", "chat", "compress", "commit"}
        \/ pc[t] \in {"requeue", "requeue_store"} /\ exc[t] \in ChatErrors
  THEN Range(pending[t]) ELSE {}

\* C1: every fragment ever enqueued is still queued, or drained by a merge
\* in progress, or was in the input of a committed merge (or was dropped by
\* clear_memory); and none is at once folded into the text and still queued.
C1_NoLossNoDup ==
  LET queued == Range(pending_updates)
      held == UNION { Held(t) : t \in Threads } IN
  /\ enqueued = queued \cup held \cup folded \cup discarded
  /\ queued \cap folded = {}

\* C2: once a _process_memory_update call has completed, preference_memory
\* is at most MAX_MEMORY_LENGTH characters long.
C2_SizeBound ==
  \A t \in Threads : pc[t] = "ret" => preference_memory.len <= MAX_MEMORY_LENGTH

\* C3: when the completion call of a merge has failed, the requeue puts the
\* fragments the merge drained at the front of pending_updates, in their
\* order, and every fragment that was enqueued before the call failed and is
\* still queued follows them, in the same relative order.
C3_RequeueOrder ==
  [][\A t \in Threads :
       (pc[t] = "requeue_store" /\ pc'[t] = "ret" /\ exc[t] \in ChatErrors) =>
         LET Before(f) == f.id < mark[t].raised
             during == SelectSeq(pending_updates, Before)
             rest == SubSeq(pending_updates', Len(pending[t]) + 1,
                            Len(pending_updates'))
             Kept(f) == f \in Range(during) IN
         /\ IsPrefix(pending[t], pending_updates')
         /\ SelectSeq(rest, Kept) = during]_vars

\* a merge failed with [a, b] drained and requeued them, c was enqueued after
\* the failure, and the next merge's completion call has [a, b, c] as input
C3_Witness ==
  \E t, u \in Threads :
    /\ t # u
    /\ pc[t] = "ret" /\ result[t].status = "error"
    /\ Len(pending[t]) = 2
    /\ pc[u] = "chat"
    /\ Len(pending[u]) = 3
    /\ SubSeq(pending[u], 1, 2) = pending[t]
    /\ pending[u][3].id >= mark[t].raised

\* C4: no step of a _process_memory_update call whose completion call raises
\* writes preference_memory; the call returns status error with the
\* exception's message and the drained fragments are in pending_updates again.
C4_FailureLeavesText ==
  [][\A t \in Threads :
       /\ (/\ pc[t] \in {"drain", "drain_clear", "prompt", "chat", "requeue",
                         "requeue_store"}
           /\ pc'[t] # pc[t]
           /\ pc[t] \in {"requeue", "requeue_store"} => exc[t] \in ChatErrors)
          => preference_memory' = preference_memory
       /\ (pc[t] = "requeue_store" /\ pc'[t] = "ret" /\ exc[t] \in ChatErrors)
          => /\ result'[t].status = "error"
             /\ result'[t].message = exc[t]
             /\ IsPrefix(pending[t], pending_updates')]_vars

\* a merge over a non-empty memory has returned an authentication error: the
\* memory is the one it read and the queue holds the fragments it drained
C4_Witness ==
  \E t \in Threads :
    /\ pc[t] = "ret"
    /\ result[t].status = "error" /\ result[t].message = "auth"
    /\ current_memory[t] # EmptyText
    /\ preference_memory = current_memory[t]
    /\ pending[t] # <<>>
    /\ pending_updates = pending[t]

\* C5: a _process_memory_update call that finds pending_updates empty
\* returns no_updates, makes no completion call and leaves preference_memory,
\* pending_updates, last_updated and the file unchanged.
C5_NoOp ==
  [][\A t \in Threads :
       (pc[t] = "drain_clear" /\ pending[t] = <<>> /\ pc'[t] = "ret") =>
         /\ result'[t].status = "no_updates"
         /\ calls'[t].merge = 0
         /\ UNCHANGED <<preference_memory, pending_updates, last_updated, disk>>]_vars

\* C6: a merge has called the compression protocol (once) exactly when the
\* stripped response to its merge prompt is longer than MAX_MEMORY_LENGTH;
\* no thread outside such a merge has called it.
C6_CompressIffAbove ==
  \A t \in Threads :
    calls[t].compress = IF calls[t].merged_len > MAX_MEMORY_LENGTH THEN 1 ELSE 0

\* a merge whose response is exactly MAX_MEMORY_LENGTH long has committed it
\* and returned success without a compression call
C6_Witness ==
  \E t \in Threads :
    /\ pc[t] = "ret" /\ result[t].status = "success"
    /\ calls[t].merge = 1 /\ calls[t].compress = 0
    /\ calls[t].merged_len = MAX_MEMORY_LENGTH
    /\ preference_memory.len = MAX_MEMORY_LENGTH

C8_EnqueuedAfterDrain ==
  \A t \in Threads :
    (Merging(t) /\ pc[t] = "ret") =>
      \A f \in enqueued :
        f.id >= mark[t].drain =>
          /\ f \notin Range(pending[t])
          /\ f \in Range(pending_updates) \cup folded \cup discarded
                   \cup UNION { Held(u) : u \in Threads \ {t} }

\* C9: on_complete is invoked at most once per scheduled update, and only by
\* a thread whose merge returned success after a compression call; the
\* foreground's own merge invokes nothing.
C9_NotifyDiscipline ==
  [][\A t \in Threads :
       notified'[t] # notified[t] =>
         /\ t \in Workers
         /\ notified[t] = 0 /\ notified'[t] = 1
         /\ pc[t] = "ret"
         /\ result[t].status = "success"
         /\ calls[t].compress = 1]_vars

\* a scheduled update has invoked its callback
C9_Witness == \E w \in Workers : notified[w] = 1 /\ pc[w] = "done"

\* the add_preference_update call that enqueued f has returned (its
\* save_preferences has written the file)
EnqueueReturned(f) ==
  ~(pc[FG] = "save" /\ op \in {"enqueue", "schedule"} /\ f.id = nextId - 1)

\* C10: while a scheduled merge is between its drain and its commit, every
\* fragment it drained whose enqueue has returned is in the pending_updates
\* of the file.
C10_DrainedOnDisk ==
  \A w \in Workers :
    pc[w] \in {"prompt", "chat", "compress", "commit"} =>
      \A f \in Range(pending[w]) :
        EnqueueReturned(f) =>
          /\ disk.kind = "json"
          /\ f \in Range(disk.pending_updates)

\* C11: the preferences file is never empty or partly written: it is absent
\* (nothing was saved yet) or holds a complete snapshot written by
\* save_preferences.
C11_SnapshotOnDisk == disk.kind \in {"absent", "json"}

\* C12: when the completion call of _compress_memory raises, nothing is
\* raised to the merge: the merge's text becomes the first
\* TARGET_MEMORY_LENGTH characters of the text given to _compress_memory with
\* the notification "truncated"; the merge commits that text and, its save
\* done, returns success with that notification.
C12_CompressFallback ==
  [][\A t \in Threads :
       /\ (pc[t] = "compress" /\ pc'[t] # "compress" /\ calls[t].compress = 1
           /\ notification'[t] \notin {"compressed", "removed"}) =>
            /\ pc'[t] = "commit"
            /\ exc'[t] = "none"
            /\ notification'[t] = "truncated"
            /\ new_memory'[t].len = TARGET_MEMORY_LENGTH
            /\ new_memory'[t] =
                 [new_memory[t] EXCEPT !.len = TARGET_MEMORY_LENGTH, !.cut = TRUE]
       /\ (pc[t] = "commit" /\ pc'[t] # "commit" /\ notification[t] = "truncated") =>
            /\ preference_memory' = new_memory[t]
            /\ preference_memory'.len = TARGET_MEMORY_LENGTH
            /\ pc'[t] = "save"
       /\ (pc[t] = "save" /\ pc'[t] = "ret" /\ notification[t] = "truncated") =>
            /\ result'[t].status = "success"
            /\ result'[t].notification = "truncated"]_vars

\* a merge whose compression call raised has returned success and the memory
\* is the 1500-character slice of its 2001-character merge result
C12_Witness ==
  \E t \in Threads :
    /\ pc[t] = "ret" /\ result[t].status = "success"
    /\ result[t].notification = "truncated"
    /\ calls[t].merged_len = 2001
    /\ preference_memory = new_memory[t]
    /\ preference_memory.len = TARGET_MEMORY_LENGTH /\ preference_memory.cut

\* the least element of a non-empty set of indices
MinOf(S) == CHOOSE i \in S : \A j \in S : i <= j

\* positions of the COMPRESSED_MEMORY: marker in a response
MarkerAt(resp) == { i \in 1..Len(resp) : resp[i].k = "CM" }

\* positions of REMOVED_TOPICS after the first COMPRESSED_MEMORY:
RemovedAt(resp) ==
  { i \in (MinOf(MarkerAt(resp)) + 1)..Len(resp) : resp[i].k = "RT" }

\* positions of a colon after the first such REMOVED_TOPICS
ColonAt(resp) ==
  { i \in (MinOf(RemovedAt(resp)) + 1)..Len(resp) : resp[i].k \in {"colon", "CM"} }

\* the compressed text the parsing rule prescribes for a response
ExpectedCompressed(resp) ==
  IF MarkerAt(resp) = {} THEN StripToks(resp)
  ELSE LET from == MinOf(MarkerAt(resp)) + 1
           to == IF RemovedAt(resp) = {} THEN Len(resp)
                 ELSE MinOf(RemovedAt(resp)) - 1 IN
       StripToks(SubSeq(resp, from, to))

\* whether the parsing rule prescribes that a removal is reported
ExpectedRemoval(resp) ==
  /\ MarkerAt(resp) # {}
  /\ RemovedAt(resp) # {}
  /\ ColonAt(resp) # {}
  /\ LET after == StripToks(SubSeq(resp, MinOf(ColonAt(resp)) + 1, Len(resp))) IN
     /\ after # <<>>
     /\ ~(Len(after) = 1 /\ after[1].w \in {"None", "NONE", "none"})

\* C13: the text a merge holds after a parsed compression response is the
\* stripped text between COMPRESSED_MEMORY: and REMOVED_TOPICS (or the end),
\* or the whole stripped response when COMPRESSED_MEMORY: is absent; a
\* removal is reported exactly when COMPRESSED_MEMORY: is present and the
\* stripped text after the first colon after REMOVED_TOPICS is neither empty
\* nor "None" in any case.
C13_ParseRule ==
  \A t \in Threads :
    (pc[t] = "commit" /\ compress_response[t] # <<>>) =>
      LET resp == compress_response[t][1] IN
      /\ new_memory[t].frags = ExpectedCompressed(resp)
      /\ new_memory[t].len = TokLen(ExpectedCompressed(resp))
      /\ notification[t] = IF ExpectedRemoval(resp) THEN "removed" ELSE "compressed"

\* the response "abc REMOVED_TOPICS: abc" without COMPRESSED_MEMORY: was
\* parsed: the whole response is the text and no removal is reported
C13_Witness ==
  /\ pc[FG] = "commit"
  /\ compress_response[FG] = << <<Word(3, "abc"), BLANK, RT, COLON, Word(3, "abc")>> >>
  /\ new_memory[FG].len = 22
  /\ notification[FG] = "compressed"

\* no background thread has been started (none can start while the
\* foreground is inside an operation)
Quiet == \A w \in Workers : pc[w] = "unborn"

C15_Enqueue ==
  [][/\ (pc[FG] = "idle" /\ pc'[FG] = "save" /\ op' \in {"enqueue", "schedule"}) =>
          /\ Len(pending_updates') = Len(pending_updates) + 1
          /\ SubSeq(pending_updates', 1, Len(pending_updates)) = pending_updates
          /\ pending_updates'[Len(pending_updates')].id = nextId
          /\ pending_updates'[Len(pending_updates')].txt = <<"a">>
     /\ (pc[FG] = "save" /\ op \in {"enqueue", "schedule"} /\ pc'[FG] # "save") =>
          /\ disk'.kind = "json"
          /\ \E f \in enqueued :
               /\ f.id = nextId - 1
               /\ \/ f \in Range(disk'.pending_updates)
                  \/ f \in folded /\ disk'.preference_memory = preference_memory]_vars

\* the text `text` is the response to the merge prompt for `memory` and the
\* fragments `frags`, or what the compression protocol made of that response
ProducedFrom(text, memory, frags) ==
  LET IsMerged(x) == /\ x.how = "merge"
                     /\ x.base = <<memory>>
                     /\ x.frags = frags IN
  \/ text = EmptyText
  \/ IsMerged(text)
  \/ text.how = "compress" /\ IsMerged(text.base[1])

\* the fragments of a sequence are in the order in which they were enqueued
InEnqueueOrder(seq) == \A i, j \in 1..Len(seq) : i < j => seq[i].id < seq[j].id

MergePcs == {"drain", "drain_clear", "prompt", "chat", "compress", "commit",
             "save", "requeue", "requeue_store"}

\* C17: a step of a merge leads to another step of it or to its return, an
\* exception of the completion call or of the write included; a merge that
\* has returned has one of the three results and does not hold the lock; the
\* requeue after a failure leaves pending_updates non-empty; and every
\* merge that has started returns.
C17_MergeEnds ==
  /\ [][\A t \in Threads :
          /\ (Merging(t) /\ pc[t] \in MergePcs /\ pc'[t] # pc[t]) =>
               pc'[t] \in MergePcs \cup {"ret"}
          /\ (pc[t] = "requeue_store" /\ pc'[t] = "ret") =>
               /\ result'[t].status = "error"
               /\ pending_updates' # <<>>]_vars
  /\ [](\A t \in Threads :
          (Merging(t) /\ pc[t] = "ret") =>
            /\ result[t].status \in {"no_updates", "success", "error"}
            /\ t \notin lock)
  /\ \A t \in Threads : (Merging(t) /\ pc[t] = "drain") ~> (pc[t] = "ret")

\* a background merge whose commit could not be written has returned error
\* with its fragments pending again, and the lock is free
C17_Witness ==
  \E w \in Workers :
    /\ pc[w] = "ret" /\ result[w].status = "error" /\ result[w].message = "io"
    /\ pending_updates # <<>>
    /\ lock = {}

\* C18: a merge whose completion call failed returns the failure to its
\* caller (status error, the exception's text), and when that was an
\* authentication failure of a scheduled merge the scheduling path is told:
\* the thread, given a callback, invokes it before it ends.
C18_AuthDistinguished ==
  \A t \in Threads :
    (Merging(t) /\ pc[t] = "ret" /\ exc[t] = "auth") =>
      /\ result[t].status = "error"
      /\ result[t].message = "auth"
      /\ t \in Workers =>
           ENABLED (RunUpdateEnd(t, TRUE) /\ notified'[t] # notified[t])

\* a step in which the write of save_preferences fails
WriteFails == iofails' = iofails + 1

\* C19: a failed write inside add_preference_update ends the call there (the
\* exception leaves it: schedule_memory_update starts no thread) with the
\* appended fragment still in pending_updates; a failed write after the
\* commit of a merge, and the requeue that follows, leave the committed text
\* in preference_memory; and every write that succeeds puts the in-memory
\* state in the file.
C19_NoRollback ==
  [][/\ (WriteFails /\ pc[FG] = "save" /\ pc'[FG] # "save"
          /\ op \in {"enqueue", "schedule"}) =>
          /\ pc'[FG] = "idle"
          /\ pending_updates' = pending_updates
          /\ preference_memory' = preference_memory
          /\ Quiet => /\ pending_updates # <<>>
                      /\ pending_updates[Len(pending_updates)].id = nextId - 1
     /\ \A t \in Threads :
          /\ (WriteFails /\ Merging(t) /\ pc[t] = "save" /\ pc'[t] # "save") =>
               /\ pc'[t] = "requeue"
               /\ preference_memory' = preference_memory
               /\ (t = FG /\ Quiet) => preference_memory' = new_memory[t]
          /\ (pc[t] \in {"requeue", "requeue_store"} /\ pc'[t] # pc[t]
              /\ exc[t] = "io") =>
               /\ preference_memory' = preference_memory
               /\ (t = FG /\ Quiet) => preference_memory' = new_memory[t]
     /\ (last_updated' # last_updated /\ ~WriteFails) =>
          /\ disk'.kind = "json"
          /\ disk'.preference_memory = preference_memory'
          /\ disk'.pending_updates = pending_updates'
          /\ disk'.feedback_history = feedback_history'
          /\ disk'.last_updated = last_updated']_vars

\* the write after a commit failed, the merge requeued its fragments, and a
\* later save has written the committed text and the requeued fragments
C19_Witness ==
  /\ iofails = 1
  /\ Quiet
  /\ pc[FG] = "idle"
  /\ disk.kind = "json"
  /\ disk.preference_memory # EmptyText
  /\ disk.preference_memory = preference_memory
  /\ disk.pending_updates # <<>>
  /\ Range(disk.pending_updates) \subseteq folded

\* the last n entries of a list, in the list's order
LastN(lst, n) ==
  LET m == IF Len(lst) < n THEN Len(lst) ELSE n IN
  [i \in 1..m |-> lst[Len(lst) - m + i]]

HistoryOps == {"query", "feedback"}

\* C20: from histories within the caps, query_history never holds more than
\* 50 entries and feedback_history never more than 100; each is the most
\* recent 50 (resp. 100) of the records ever inserted, in insertion order;
\* and add_query_record and add_feedback, from the call to the return of
\* their save, leave preference_memory and pending_updates as they were.
C20_BoundedHistories ==
  /\ [](/\ Len(query_history) <= 50
        /\ Len(feedback_history) <= 100
        /\ query_history = LastN(inserted.query, 50)
        /\ feedback_history = LastN(inserted.feedback, 100))
  /\ [][/\ (pc[FG] = "idle" /\ op' \in HistoryOps /\ pc'[FG] = "save") =>
            /\ preference_memory' = preference_memory
            /\ pending_updates' = pending_updates
       /\ (pc[FG] = "save" /\ op \in HistoryOps /\ pc'[FG] # "save") =>
            /\ preference_memory' = preference_memory
            /\ pending_updates' = pending_updates]_vars

\* both caps were exceeded with a fragment pending: the oldest stored query
\* and the oldest stored feedback are gone, the newest records are last
C20_Witness ==
  /\ pc[FG] = "idle"
  /\ Len(inserted.query) = 51 /\ Len(query_history) = 50
  /\ Len(inserted.feedback) = 101 /\ Len(feedback_history) = 100
  /\ query_history[1] = inserted.query[2]
  /\ feedback_history[1] = inserted.feedback[2]
  /\ query_history[50].timestamp > 0
  /\ feedback_history[100].timestamp > 0
  /\ pending_updates # <<>>
  /\ disk.query_history = query_history
  /\ disk.feedback_history = feedback_history

\* the legacy fields in the order of the migration
LegacyOrder ==
  <<"interested_keywords", "not_interested_keywords", "interested_topics",
    "not_interested_topics", "custom_preferences">>

LegacyLabel(k) ==
  CASE k = "interested_keywords" -> "Interested in: "
    [] k = "not_interested_keywords" -> "Not interested in: "
    [] k = "interested_topics" -> "Interested topics: "
    [] k = "not_interested_topics" -> "Topics to avoid: "

NonEmptyField(file, k) == k \in DOMAIN file /\ file[k] # <<>>

\* the words of a text, without labels and separators
WordsOf(toks) ==
  SelectSeq(toks, LAMBDA t : t # BLANK /\ t # COMMA /\ t.w \notin
              { LegacyLabel(k) : k \in Range(SubSeq(LegacyOrder, 1, 4)) })

\* the items of the non-empty legacy fields from the i-th field on
RECURSIVE LegacyItems(_, _)
LegacyItems(file, i) ==
  IF i > Len(LegacyOrder) THEN <<>>
  ELSE (IF NonEmptyField(file, LegacyOrder[i])
        THEN SelectSeq(file[LegacyOrder[i]], LAMBDA t : t # BLANK)
        ELSE <<>>) \o LegacyItems(file, i + 1)

\* the labels of a text, in the order they appear
LabelsOf(toks) ==
  LET labelled == SelectSeq(toks, LAMBDA t : t.w \in
                     { LegacyLabel(k) : k \in Range(SubSeq(LegacyOrder, 1, 4)) }) IN
  [i \in 1..Len(labelled) |-> labelled[i].w]

\* the labels of the non-empty legacy lists, in the order of the migration
ExpectedLabels(file) ==
  LET present == SelectSeq(SubSeq(LegacyOrder, 1, 4),
                           LAMBDA k : NonEmptyField(file, k)) IN
  [i \in 1..Len(present) |-> LegacyLabel(present[i])]

\* text is what a load of file must give as preference_memory
LoadedAsSpecified(file, text) ==
  IF "preference_memory" \in DOMAIN file /\ file.preference_memory # EmptyText
  THEN text = file.preference_memory
  ELSE /\ LabelsOf(text.frags) = ExpectedLabels(file)
       /\ WordsOf(text.frags) = LegacyItems(file, 1)
       /\ text.len = TokLen(text.frags)
       /\ (text = EmptyText) <=>
            (\A i \in 1..Len(LegacyOrder) : ~NonEmptyField(file, LegacyOrder[i]))
       /\ text.frags # <<>> =>
            /\ text.frags[1] # BLANK /\ text.frags[Len(text.frags)] # BLANK
            /\ \A i \in 2..Len(text.frags) :
                 \/ text.frags[i].w \notin
                      { LegacyLabel(k) : k \in Range(SubSeq(LegacyOrder, 1, 4)) }
                 \/ text.frags[i - 1] = BLANK

\* C21: a load of a record without (or with an empty) preference_memory
\* gives the renderings of its non-empty legacy fields in the order
\* interested keywords, not-interested keywords, interested topics, avoided
\* topics, free text, joined by single spaces; a load of a record with a
\* non-empty preference_memory gives that text unchanged whatever the legacy
\* fields; every load of the same record gives the same text.
C21_LegacyMigration ==
  /\ [](ops = 0 /\ disk.kind = "json" =>
          LoadedAsSpecified(disk, preference_memory))
  /\ [][(op' = "load" /\ ops' = ops + 1 /\ disk.kind = "json") =>
          /\ LoadedAsSpecified(disk, preference_memory')
          /\ preference_memory' = FromDict(disk').preference_memory]_vars

\* the program was restarted on a legacy record with all five fields and no
\* memory text: the loaded text is the five renderings in order
C21_Witness ==
  /\ op = "load" /\ ops = 1
  /\ "preference_memory" \notin DOMAIN disk
  /\ preference_memory.frags =
       <<Word(15, "Interested in: "), Word(2, "ml"), Word(2, ", "),
         Word(3, "nlp"), BLANK,
         Word(19, "Not interested in: "), Word(2, "ml"), BLANK,
         Word(19, "Interested topics: "), Word(2, "ml"), Word(2, ", "),
         Word(3, "nlp"), BLANK,
         Word(17, "Topics to avoid: "), Word(2, "ml"), BLANK,
         Word(5, "likes"), BLANK, Word(6, "theory")>>
  /\ preference_memory.len = 104

\* C22: every step that changes preference_memory or pending_updates is
\* taken by a thread that holds the lock.
C22_LockDiscipline ==
  [][(pending_updates' # pending_updates \/ preference_memory' # preference_memory)
       => \E t \in lock : pc'[t] # pc[t]]_vars

\* a text written by the commit of a merge
Committed(text) == text.how \in {"merge", "compress"}

\* C23: a merge never commits over a text that another merge committed
\* after this merge read preference_memory: at its commit the store holds
\* the text it read, or a text no merge wrote.
C23_NoStaleCommit ==
  [][\A t \in Threads :
       (pc[t] = "commit" /\ pc'[t] = "save") =>
          \/ preference_memory = current_memory[t]
          \/ ~Committed(preference_memory)]_vars

\* C24: from the return of clear_memory until the foreground starts its
\* next operation (so nothing new is enqueued), preference_memory and
\* pending_updates are empty, whatever the background merges do.
C24_ClearIsFinal ==
  (op = "clear" /\ pc[FG] = "idle") =>
     /\ preference_memory = EmptyText
     /\ pending_updates = <<>>

\* C25: a thread inside a completion call (merge or compression) does not
\* hold the lock; a thread that holds it is inside the drain or the requeue
\* and can release it by its own next step; so the foreground's
\* add_preference_update, which takes no lock for its append, and its
\* save_preferences, once the lock is free, can proceed while completion
\* calls are in progress.
C25_EnqueueNotBlocked ==
  /\ \A t \in Threads : pc[t] \in {"chat", "compress"} => t \notin lock
  /\ \A t \in lock :
       /\ pc[t] \in {"drain_clear", "requeue_store"}
       /\ ENABLED (DrainClear(t) \/ RequeueStore(t))
  /\ (pc[FG] = "save" /\ lock = {}) => ENABLED SavePreferences(FG)
  /\ (pc[FG] = "idle" /\ ops < MaxOps) =>
       ENABLED AddPreferenceUpdate(<<WS, "a", WS>>)

\* add_preference_update has returned, its fragment queued and in the file,
\* while a background merge is inside its completion call
C25_Witness ==
  \E w \in Workers :
    /\ pc[w] \in {"chat", "compress"}
    /\ pc[FG] = "idle" /\ op = "enqueue"
    /\ lock = {}
    /\ pending[w] # <<>>
    /\ \E f \in Range(pending_updates) :
         /\ f.id >= mark[w].drain
         /\ disk.kind = "json"
         /\ f \in Range(disk.pending_updates)

\* the program points where a thread is about to acquire the lock
LockWaitPcs == {"drain", "requeue", "save"}

\* C26: at most one thread holds the lock, and only inside the drain or the
\* requeue section (save_preferences takes and releases it within its own
\* step); the holder is never at a point where it acquires the lock again;
\* the lock is free again and again; and a merge waiting for the lock at its
\* drain or at its requeue gets it, also when writes fail.
C26_NoSelfDeadlock ==
  /\ [](/\ Cardinality(lock) <= 1
        /\ \A t \in lock : pc[t] \in {"drain_clear", "requeue_store"}
        /\ \A t \in lock : pc[t] \notin LockWaitPcs)
  /\ []<>(lock = {})
  /\ \A t \in Threads :
       (Merging(t) /\ pc[t] \in {"drain", "requeue"}) ~> (t \in lock)

\* a merge holds the lock inside its requeue after a failed write while
\* another thread is at its own acquisition
C26_Witness ==
  \E t, u \in Threads :
    /\ t # u
    /\ t \in lock
    /\ pc[t] = "requeue_store" /\ exc[t] = "io"
    /\ pc[u] \in LockWaitPcs

\* the three notifications of _compress_memory
CompressNotifications == {"removed", "compressed", "truncated"}

\* C27: a merge that is about to commit, or has returned success, carries
\* one of the three notifications of _compress_memory if it made a
\* compression call and none if it made no such call; and the thread of a
\* scheduled merge that returned success after a compression invokes a
\* given callback, once, and has not invoked it before.
C27_CompressNotifies ==
  \A t \in Threads :
    /\ (Merging(t) /\ pc[t] \in {"commit", "save"}) =>
         /\ calls[t].compress = 1 => notification[t] \in CompressNotifications
         /\ calls[t].compress = 0 => notification[t] = "None"
    /\ (pc[t] = "ret" /\ result[t].status = "success") =>
         /\ calls[t].compress = 1 => result[t].notification \in CompressNotifications
         /\ calls[t].compress = 0 => result[t].notification = "None"
    /\ (t \in Workers /\ pc[t] = "ret" /\ result[t].status = "success"
          /\ calls[t].compress = 1) =>
         /\ notified[t] = 0
         /\ ENABLED (RunUpdateEnd(t, TRUE) /\ notified'[t] = 1)
         /\ ~ENABLED (RunUpdateEnd(t, TRUE) /\ notified'[t] # 1)
    /\ notified[t] <= 1

\* one scheduled merge has invoked its callback and ended; another has
\* returned success with the notification of the truncation fallback
C27_Witness ==
  \E w \in Workers :
    /\ pc[w] = "ret" /\ result[w].status = "success"
    /\ result[w].notification = "truncated"
    /\ \E v \in Workers : v # w /\ notified[v] = 1 /\ pc[v] = "done"

\* C28: the commit of a merge never replaces a non-empty preference_memory
\* by the empty string (stated for a merge that runs alone and commits
\* over the text it read, so that no other thread is involved).
C28_NoEmptyCommit ==
  [][\A t \in Threads :
       (/\ pc[t] = "commit" /\ pc'[t] = "save"
        /\ preference_memory # EmptyText
        /\ preference_memory = current_memory[t]
        /\ \A u \in Threads \ {t} : pc[u] \in {"unborn", "done", "idle"})
          => preference_memory' # EmptyText]_vars

\* the Preferences value held in memory
InMemory ==
  [preference_memory |-> preference_memory,
   pending_updates |-> pending_updates,
   query_history |-> query_history,
   feedback_history |-> feedback_history,
   settings |-> settings,
   last_updated |-> last_updated]

\* the fields of a file, for a file that save_preferences has written
Saved(file) ==
  [preference_memory |-> file.preference_memory,
   pending_updates |-> file.pending_updates,
   query_history |-> file.query_history,
   feedback_history |-> file.feedback_history,
   settings |-> file.settings,
   last_updated |-> file.last_updated]

WrittenBySave(file) == file.kind = "json" /\ "last_updated" \in DOMAIN file

\* C29: from_dict(to_dict(p)) = p for the Preferences value p of every
\* state; a file written by save_preferences holds every field of the
\* current schema and no legacy field; and a restart on such a file gives
\* exactly the saved text, fragments in order, histories, settings and stamp.
C29_RoundTrip ==
  /\ [](FromDict(ToDict) = InMemory)
  /\ [][(pc[FG] = "save" /\ pc'[FG] = "idle") =>
          /\ WrittenBySave(disk')
          /\ Saved(disk') = InMemory'
          /\ DOMAIN disk' = DOMAIN Saved(disk') \cup {"kind"}]_vars
  /\ [][(op' = "load" /\ ops' = ops + 1 /\ WrittenBySave(disk)) =>
          InMemory' = Saved(disk)]_vars

\* the program was restarted on a file written by save_preferences that
\* holds a migrated text, a pending fragment and a setting: all are back
C29_Witness ==
  /\ op = "load"
  /\ WrittenBySave(disk)
  /\ preference_memory # EmptyText
  /\ pending_updates # <<>>
  /\ settings # NoSettings
  /\ last_updated = 2
  /\ InMemory = Saved(disk)

\* C30: a chat call sends at most max_retries + 1 = 4 requests, one per
\* pass of its loop, and none after it has returned or raised; a 401 raises
\* PermissionError, a connection error, a timeout and a 404 raise
\* ConnectionError, each at once; a 429 is followed by another request up
\* to three times and by RuntimeError the fourth time; and a merge begins at
\* most one call for the merge prompt and one for the compression prompt.
C30_BoundedRetry ==
  /\ [](\A t \in Threads :
          /\ http[t].requests <= 4
          /\ http[t].requests <= MAX_RETRIES + 1
          /\ http[t].last = "401" => http[t].outcome = "PermissionError"
          /\ http[t].last \in {"connection", "timeout", "404"} =>
               http[t].outcome = "ConnectionError"
          /\ http[t].last = "429" =>
               IF http[t].requests <= 3 THEN http[t].outcome = "running"
               ELSE http[t].outcome = "RuntimeError"
          /\ calls[t].merge <= 1 /\ calls[t].compress <= 1
          /\ http[t].call <= 2)
  /\ [][\A t \in Threads :
          (http'[t] # http[t] /\ http'[t] # NoHttp) =>
             /\ http'[t].call = calls[t].merge + calls[t].compress
             /\ IF http[t].call = http'[t].call
                THEN /\ http[t].outcome = "running"
                     /\ http'[t].requests = http[t].requests + 1
                ELSE http'[t].requests = 1
             /\ (http'[t].last \in {"401", "404", "connection", "timeout"}
                  => http'[t].outcome # "running")]_vars

\* the compression call of a merge was answered 429 four times and has
\* raised after its fourth request; the merge call before it had succeeded
C30_Witness ==
  /\ pc[FG] = "compress"
  /\ http[FG] = [call |-> 2, attempt |-> 3, requests |-> 4, last |-> "429",
                 outcome |-> "RuntimeError"]
  /\ calls[FG].merge = 1 /\ calls[FG].compress = 1

====
